---- MODULE Spec2Model ----
(***************************************************************************)
(* A model of mini-git's staging layer (src/src/main.rs): the commands     *)
(* `init` and `add`, run against a disk that holds the working tree and    *)
(* the control area `.minigit/` (objects/<digest> and index.json).         *)
(*                                                                         *)
(* The disk is one tree: `dirs` is the set of directories and `files`      *)
(* maps every regular file to its bytes, both keyed by absolute path (a    *)
(* sequence of components).  A command runs as a sequence of steps, one    *)
(* per system call that touches the disk, so that it can be killed or can  *)
(* fail between any two of them.                                           *)
(***************************************************************************)
EXTENDS Naturals, Sequences, FiniteSets, TLC

VARIABLES
    files,      \* disk: absolute path of a regular file -> its bytes
    dirs,       \* disk: the absolute paths of the directories
    pc,         \* per process: the step the running command is at
    args,       \* cmd_add: `paths` not yet taken by the for loop
    index,      \* cmd_add: the in-memory Index (path string -> blob id)
    todo,       \* cmd_add: files of the current argument still to stage
    data,       \* stage_file / save_index: the bytes about to be written
    blob_id,    \* stage_file: sha1_hex of `data`
    run,        \* history: the running command and the disk it started on
    last,       \* history: the command that finished last, and how
    ops,        \* number of commands started
    edits       \* number of edits made to the working tree

vars == <<files, dirs, pc, args, index, todo, data, blob_id, run, last, ops, edits>>

(***************************************************************************)
(* Bounds.                                                                 *)
(***************************************************************************)
MaxOps == 3      \* commands run in one behaviour
MaxEdits == 1    \* edits of working files in one behaviour
MaxTorn == 1     \* tokens of an interrupted write that may reach the disk

Procs == {1, 2}
SeqProcs == {1}  \* spec section 5: one staging invocation at a time

(***************************************************************************)
(* Small helpers on sequences and sets.                                    *)
(***************************************************************************)
Min(a, b) == IF a <= b THEN a ELSE b

RECURSIVE Reverse(_)
Reverse(s) == IF s = <<>> THEN <<>> ELSE Reverse(Tail(s)) \o <<Head(s)>>

RECURSIVE SetToSeq(_)
SetToSeq(S) ==
    IF S = {} THEN <<>>
    ELSE LET x == CHOOSE y \in S : TRUE IN <<x>> \o SetToSeq(S \ {x})

\* The orders in which the model lets an unordered collection be iterated
\* (read_dir, HashMap iteration): one order and its reverse.
Orders == {"fwd", "rev"}
InOrder(S, ord) == IF ord = "fwd" THEN SetToSeq(S) ELSE Reverse(SetToSeq(S))

IsPrefix(s, t) == Len(s) <= Len(t) /\ SubSeq(t, 1, Len(s)) = s

(***************************************************************************)
(* Paths.  A path is a sequence of components; an absolute path starts     *)
(* with the root component "/".                                            *)
(***************************************************************************)
Cwd == <<"/", "w">>

repo_dir == <<".minigit">>
objects_dir == repo_dir \o <<"objects">>
index_path == repo_dir \o <<"index.json">>

is_absolute(p) == Len(p) > 0 /\ p[1] = "/"

\* Path::components: a "." that is not the first component is dropped.
RECURSIVE drop_curdir(_)
drop_curdir(p) ==
    IF p = <<>> THEN <<>>
    ELSE (IF Head(p) = "." THEN <<>> ELSE <<Head(p)>>) \o drop_curdir(Tail(p))
components(p) == IF p = <<>> THEN <<>> ELSE <<Head(p)>> \o drop_curdir(Tail(p))

\* How the operating system resolves a path handed to a system call.
Resolve(p) == components(IF is_absolute(p) THEN p ELSE Cwd \o p)

\* Path::strip_prefix, on components; Err is modelled by the flag.
strip_prefix(abs, base) ==
    LET a == components(abs)
        b == components(base)
    IN  IF IsPrefix(b, a)
        THEN [ok |-> TRUE, rest |-> SubSeq(a, Len(b) + 1, Len(a))]
        ELSE [ok |-> FALSE, rest |-> <<>>]

\* Path::to_string_lossy: the components joined by "/".
RECURSIVE join_slash(_)
join_slash(p) ==
    IF p = <<>> THEN ""
    ELSE IF Len(p) = 1 THEN p[1]
    ELSE p[1] \o "/" \o join_slash(Tail(p))
to_string_lossy(p) ==
    IF is_absolute(p) THEN "/" \o join_slash(Tail(p)) ELSE join_slash(p)

\* Mutant of to_repo_relative: the path is recorded as it was supplied.
to_repo_relative_verbatim(path) == to_string_lossy(path)

to_repo_relative(path) ==
    LET abs == IF is_absolute(path) THEN path ELSE Cwd \o path
        rel == strip_prefix(abs, Cwd)
    IN  to_string_lossy(IF rel.ok THEN rel.rest ELSE abs)

(***************************************************************************)
(* File contents are sequences of tokens: a byte of a working file is one  *)
(* token, and so is each punctuation mark, run of white space and string   *)
(* body of the index's JSON text.                                          *)
(***************************************************************************)
\* SHA-1 rendered in hex.  The model keeps the one property the program uses,
\* that different contents get different names: the name spells the content.
RECURSIVE concat(_)
concat(bytes) == IF bytes = <<>> THEN "" ELSE Head(bytes) \o concat(Tail(bytes))
sha1_hex(bytes) == "sha1(" \o concat(bytes) \o ")"

\* Index::new() and HashMap::insert.
EmptyIndex == <<>>

\* Mutant of insert: an existing entry is kept instead of overwritten.
insert_keep_old(m, k, v) == m @@ (k :> v)

insert(m, k, v) == (k :> v) @@ m

\* serde_json::to_vec_pretty of the map, its entries in the order `ks`.
RECURSIVE pretty_entries(_, _)
pretty_entries(m, ks) ==
    IF ks = <<>> THEN <<>>
    ELSE <<"\n", "\"", Head(ks), "\"", ":", " ", "\"", m[Head(ks)], "\"">>
         \o (IF Len(ks) > 1 THEN <<",">> ELSE <<"\n">>)
         \o pretty_entries(m, Tail(ks))
to_vec_pretty(m, ord) ==
    IF DOMAIN m = {} THEN <<"{", "}">>
    ELSE <<"{">> \o pretty_entries(m, InOrder(DOMAIN m, ord)) \o <<"}">>

\* serde_json::from_slice::<HashMap<String, String>>: white space is skipped
\* between tokens, a later duplicate key wins, anything after the closing
\* brace but white space is an error.
ParseError == [ok |-> FALSE, map |-> EmptyIndex]
is_ws(t) == t \in {"\n", " "}

\* Mutant of skip_ws: the parser does not skip white space.
skip_ws_none(b, i) == i

RECURSIVE skip_ws(_, _)
skip_ws(b, i) == IF i <= Len(b) /\ is_ws(b[i]) THEN skip_ws(b, i + 1) ELSE i

parse_str(b, i) ==
    IF i + 2 <= Len(b) /\ b[i] = "\"" /\ b[i + 1] # "\"" /\ b[i + 2] = "\""
    THEN [ok |-> TRUE, val |-> b[i + 1], next |-> i + 3]
    ELSE [ok |-> FALSE, val |-> "", next |-> i]

RECURSIVE parse_entries(_, _, _)
parse_entries(b, i, m) ==
    LET k == parse_str(b, i)
        c == skip_ws(b, k.next)
        v == parse_str(b, skip_ws(b, c + 1))
        e == skip_ws(b, v.next)
    IN  IF ~k.ok \/ c > Len(b) THEN ParseError
        ELSE IF b[c] # ":" \/ ~v.ok \/ e > Len(b) THEN ParseError
        ELSE IF b[e] = ","
             THEN parse_entries(b, skip_ws(b, e + 1), insert(m, k.val, v.val))
        ELSE IF b[e] = "}" /\ skip_ws(b, e + 1) > Len(b)
             THEN [ok |-> TRUE, map |-> insert(m, k.val, v.val)]
        ELSE ParseError

from_slice(b) ==
    LET o == skip_ws(b, 1)
        f == skip_ws(b, o + 1)
    IN  IF o > Len(b) THEN ParseError
        ELSE IF b[o] # "{" \/ f > Len(b) THEN ParseError
        ELSE IF b[f] = "}"
             THEN (IF skip_ws(b, f + 1) > Len(b)
                   THEN [ok |-> TRUE, map |-> EmptyIndex] ELSE ParseError)
        ELSE parse_entries(b, f, EmptyIndex)

(***************************************************************************)
(* The disk, as the program's system calls see it.                         *)
(***************************************************************************)
exists(p) == Resolve(p) \in dirs \/ Resolve(p) \in DOMAIN files
is_dir(p) == Resolve(p) \in dirs
is_file(p) == Resolve(p) \in DOMAIN files

\* fs::read_dir(root), each entry as entry.path() = root.join(name).
read_dir(root, ord) ==
    LET d == Resolve(root)
        kids == {q \in dirs \cup DOMAIN files :
                    Len(q) = Len(d) + 1 /\ IsPrefix(d, q)}
        names == {q[Len(q)] : q \in kids}
        ns == InOrder(names, ord)
    IN  [i \in 1..Len(ns) |-> root \o <<ns[i]>>]

RECURSIVE walkdir(_, _), walk_entries(_, _)

\* Mutant of walk_entries: subdirectories are not descended into.
walk_entries_flat(es, ord) == SelectSeq(es, is_file)

walk_entries(es, ord) ==
    IF es = <<>> THEN <<>>
    ELSE (IF is_dir(Head(es)) THEN walkdir(Head(es), ord)
          ELSE IF is_file(Head(es)) THEN <<Head(es)>>
          ELSE <<>>)
         \o walk_entries(Tail(es), ord)
walkdir(root, ord) == walk_entries(read_dir(root, ord), ord)

\* What a write of `bytes` may leave on disk when it does not complete
\* (fs::write = create/truncate, then write_all): a proper prefix.
Torn(bytes) ==
    {SubSeq(bytes, 1, n) : n \in 0..Min(MaxTorn, Len(bytes))} \ {bytes}

\* The persisted state read back: the blob store and the index file.
ObjectsAbs == Resolve(objects_dir)
IsObject(q) == Len(q) = Len(ObjectsAbs) + 1 /\ IsPrefix(ObjectsAbs, q)
objects_of(fs) == {q[Len(q)] : q \in {r \in DOMAIN fs : IsObject(r)}}
blob_of(fs, d) == fs[ObjectsAbs \o <<d>>]
IndexAbs == Resolve(index_path)
index_of(fs) ==
    IF IndexAbs \in DOMAIN fs THEN from_slice(fs[IndexAbs])
    ELSE [ok |-> TRUE, map |-> EmptyIndex]

(***************************************************************************)
(* The working tree and the command lines the model runs.                  *)
(***************************************************************************)
Src == <<"src">>
Sub == <<"src", "sub">>
FileA == <<"a.txt">>
FileB == <<"src", "b.txt">>
FileC == <<"src", "sub", "c.txt">>
Ghost == <<"ghost">>     \* never exists
Dot == <<".">>
AbsA == Cwd \o FileA     \* a.txt, spelled as an absolute path
Outside == <<"/", "o.txt">>   \* a file that is not below the working directory

UserFiles == {FileA, FileB, FileC}
FileData == {<<"x">>, <<"x", "y">>}
Editable == {FileA}      \* the working file the user edits between commands

\* `add <paths>` as main hands them to cmd_add (never empty).
ArgLists == {<<Dot>>, <<Src>>, <<FileA>>, <<FileA, Ghost, Src>>,
             <<FileA, AbsA, Outside>>}

NoLast == [cmd |-> "", paths |-> <<>>, res |-> ""]
NoRun == [cmd |-> "", paths |-> <<>>, files0 |-> <<>>, dirs0 |-> {}, prev |-> NoLast]
Started(c, ps) ==
    [cmd |-> c, paths |-> ps, files0 |-> files, dirs0 |-> dirs, prev |-> last]

Init ==
    /\ dirs = {<<"/">>, Cwd, Resolve(Src), Resolve(Sub)}
    /\ files = (Resolve(FileA) :> <<"x">>) @@ (Resolve(FileB) :> <<"x">>)
               @@ (Resolve(FileC) :> <<"x", "y">>) @@ (Outside :> <<"x">>)
    /\ pc = [p \in Procs |-> "idle"]
    /\ args = [p \in Procs |-> <<>>]
    /\ index = [p \in Procs |-> EmptyIndex]
    /\ todo = [p \in Procs |-> <<>>]
    /\ data = [p \in Procs |-> <<>>]
    /\ blob_id = [p \in Procs |-> ""]
    /\ run = [p \in Procs |-> NoRun]
    /\ last = NoLast
    /\ ops = 0
    /\ edits = 0

\* The command of process p returns (or dies) with result `res`; r is its
\* run record.  Its locals are dropped.
Finish(p, r, res) ==
    /\ pc' = [pc EXCEPT ![p] = "idle"]
    /\ args' = [args EXCEPT ![p] = <<>>]
    /\ index' = [index EXCEPT ![p] = EmptyIndex]
    /\ todo' = [todo EXCEPT ![p] = <<>>]
    /\ data' = [data EXCEPT ![p] = <<>>]
    /\ blob_id' = [blob_id EXCEPT ![p] = ""]
    /\ run' = [run EXCEPT ![p] = NoRun]
    /\ last' = [cmd |-> r.cmd, paths |-> r.paths, res |-> res]

Goto(p, label) == pc' = [pc EXCEPT ![p] = label]

\* The user edits a working file between two commands; `last` then no longer
\* describes the working tree and is forgotten.
EditFile(f, c) ==
    /\ \A p \in Procs : pc[p] = "idle"
    /\ edits < MaxEdits
    /\ files[Resolve(f)] # c
    /\ files' = [files EXCEPT ![Resolve(f)] = c]
    /\ edits' = edits + 1
    /\ last' = NoLast
    /\ UNCHANGED <<dirs, pc, args, index, todo, data, blob_id, run, ops>>

(***************************************************************************)
(* save_index, shared by cmd_init and cmd_add.                             *)
(***************************************************************************)
\* Lines 57-61: serialize, then fs::write opens index.json truncating it.
save_create(p) ==
    /\ pc[p] = "save"
    /\ \E ord \in Orders, io_ok \in BOOLEAN :
        IF io_ok /\ is_dir(repo_dir) /\ ~is_dir(index_path)
        THEN /\ data' = [data EXCEPT ![p] = to_vec_pretty(index[p], ord)]
             /\ files' = (IndexAbs :> <<>>) @@ files
             /\ Goto(p, "save_write")
             /\ UNCHANGED <<args, index, todo, blob_id, run, last>>
        ELSE /\ Finish(p, run[p], "io")
             /\ UNCHANGED files
    /\ UNCHANGED <<dirs, ops, edits>>

\* Line 61: fs::write's write_all; a failure leaves a prefix behind.
save_write(p) ==
    /\ pc[p] = "save_write"
    /\ \E out \in {data[p]} \cup Torn(data[p]) :
        /\ files' = (IndexAbs :> out) @@ files
        /\ Finish(p, run[p], IF out = data[p] THEN "ok" ELSE "io")
    /\ UNCHANGED <<dirs, ops, edits>>

(***************************************************************************)
(* cmd_init.                                                               *)
(***************************************************************************)
\* Mutant of init_is_noop: init never notices an existing control area.
init_is_noop_never == FALSE

\* Lines 140-143: the control area exists already?
init_is_noop == exists(repo_dir)

cmd_init(p) ==
    /\ pc[p] = "idle"
    /\ ops < MaxOps
    /\ ops' = ops + 1
    /\ IF init_is_noop
       THEN Finish(p, Started("init", <<>>), "ok")
       ELSE /\ Goto(p, "init_mkdir_repo")
            /\ run' = [run EXCEPT ![p] = Started("init", <<>>)]
            /\ UNCHANGED <<args, index, todo, data, blob_id, last>>
    /\ UNCHANGED <<files, dirs, edits>>

\* Line 144: create_dir_all(".minigit/objects") makes .minigit first ...
init_mkdir_repo(p) ==
    /\ pc[p] = "init_mkdir_repo"
    /\ \E io_ok \in BOOLEAN :
        IF io_ok
        THEN /\ dirs' = dirs \cup {Resolve(repo_dir)}
             /\ Goto(p, "init_mkdir_objects")
             /\ UNCHANGED <<args, index, todo, data, blob_id, run, last>>
        ELSE /\ Finish(p, run[p], "io")
             /\ UNCHANGED dirs
    /\ UNCHANGED <<files, ops, edits>>

\* Mutant of init_mkdir_objects: the blob storage area is not created.
init_mkdir_objects_skip(p) ==
    /\ pc[p] = "init_mkdir_objects"
    /\ index' = [index EXCEPT ![p] = EmptyIndex]
    /\ Goto(p, "save")
    /\ UNCHANGED <<files, dirs, args, todo, data, blob_id, run, last, ops, edits>>

\* ... and then .minigit/objects; line 145 goes on to save the empty index.
init_mkdir_objects(p) ==
    /\ pc[p] = "init_mkdir_objects"
    /\ \E io_ok \in BOOLEAN :
        IF io_ok
        THEN /\ dirs' = dirs \cup {Resolve(objects_dir)}
             /\ index' = [index EXCEPT ![p] = EmptyIndex]
             /\ Goto(p, "save")
             /\ UNCHANGED <<args, todo, data, blob_id, run, last>>
        ELSE /\ Finish(p, run[p], "io")
             /\ UNCHANGED dirs
    /\ UNCHANGED <<files, ops, edits>>

(***************************************************************************)
(* cmd_add.                                                                *)
(***************************************************************************)
\* Mutant of ensure_repo: the guard never bails.
ensure_repo_always == TRUE

\* Lines 27-32: Ok iff `.minigit` exists.
ensure_repo == exists(repo_dir)

\* Mutant of load_index: an index that does not parse counts as empty.
load_index_lenient ==
    IF ~exists(index_path) \/ ~from_slice(files[IndexAbs]).ok
    THEN [ok |-> TRUE, map |-> EmptyIndex]
    ELSE from_slice(files[IndexAbs])

\* Mutant of load_index: the persisted index is not read.
load_index_fresh == [ok |-> TRUE, map |-> EmptyIndex]

\* Lines 39-52, given that the file could be read.
load_index ==
    IF ~exists(index_path) THEN [ok |-> TRUE, map |-> EmptyIndex]
    ELSE from_slice(files[IndexAbs])

\* Lines 113-114: the blob's path, and whether it still has to be written.
object_path(id) == objects_dir \o <<id>>

\* Mutants of blob_missing: the test inverted, the test dropped, and the
\* write dropped.
blob_missing_inverted(id) == exists(object_path(id))
blob_missing_always(id) == TRUE
blob_missing_never(id) == FALSE

blob_missing(id) == ~exists(object_path(id))

\* Mutant of AfterStage: the index is persisted as soon as a step of the loop
\* is done, arguments left or not.
AfterStage_eager(t, a) == "save"

\* Where the for loop of lines 156-166 goes on: the next file of this
\* argument, the next argument, or (no argument left) save_index.
AfterStage(t, a) == IF t = <<>> /\ a = <<>> THEN "save" ELSE "loop"

\* Lines 118-120 for the file at the head of `todo`, then back to the loop.
Staged(p) ==
    /\ index' = [index EXCEPT
                    ![p] = insert(index[p], to_repo_relative(Head(todo[p])), blob_id[p])]
    /\ todo' = [todo EXCEPT ![p] = Tail(todo[p])]
    /\ Goto(p, AfterStage(Tail(todo[p]), args[p]))

\* Line 151: the guard.
cmd_add(p, paths) ==
    /\ pc[p] = "idle"
    /\ ops < MaxOps
    /\ ops' = ops + 1
    /\ IF ensure_repo
       THEN /\ Goto(p, "add_mkdir")
            /\ run' = [run EXCEPT ![p] = Started("add", paths)]
            /\ args' = [args EXCEPT ![p] = paths]
            /\ UNCHANGED <<index, todo, data, blob_id, last>>
       ELSE Finish(p, Started("add", paths), "precondition")
    /\ UNCHANGED <<files, dirs, edits>>

\* Mutant of add_mkdir: cmd_add relies on init having made the directory.
add_mkdir_skip(p) ==
    /\ pc[p] = "add_mkdir"
    /\ Goto(p, "load")
    /\ UNCHANGED <<files, dirs, args, index, todo, data, blob_id, run, last, ops, edits>>

\* Line 152: create_dir_all(".minigit/objects").
add_mkdir(p) ==
    /\ pc[p] = "add_mkdir"
    /\ \E io_ok \in BOOLEAN :
        IF io_ok
        THEN /\ dirs' = dirs \cup {Resolve(repo_dir), Resolve(objects_dir)}
             /\ Goto(p, "load")
             /\ UNCHANGED <<args, index, todo, data, blob_id, run, last>>
        ELSE /\ Finish(p, run[p], "io")
             /\ UNCHANGED dirs
    /\ UNCHANGED <<files, ops, edits>>

\* Line 154.
add_load(p) ==
    /\ pc[p] = "load"
    /\ \E io_ok \in BOOLEAN :
        IF ~io_ok /\ exists(index_path) THEN Finish(p, run[p], "io")
        ELSE IF ~load_index.ok THEN Finish(p, run[p], "parse")
        ELSE /\ index' = [index EXCEPT ![p] = load_index.map]
             /\ Goto(p, AfterStage(<<>>, args[p]))
             /\ UNCHANGED <<args, todo, data, blob_id, run, last>>
    /\ UNCHANGED <<files, dirs, ops, edits>>

\* Mutant of arg_files: a path that is no directory is staged as a file.
arg_files_no_skip(a, ord) == IF is_dir(a) THEN walkdir(a, ord) ELSE <<a>>

\* Lines 157-165: the files argument `a` asks to stage (none when it is
\* neither a directory nor a file: "Skipping (not found)").
arg_files(a, ord) ==
    IF is_dir(a) THEN walkdir(a, ord)
    ELSE IF is_file(a) THEN <<a>>
    ELSE <<>>

\* Mutant of add_next_arg: a directory that cannot be read is passed over.
add_next_arg_tolerant(p) ==
    /\ pc[p] = "loop"
    /\ todo[p] = <<>>
    /\ args[p] # <<>>
    /\ LET a == Head(args[p])
           rest == Tail(args[p])
       IN  \E ord \in Orders, io_ok \in BOOLEAN :
            LET fs == IF is_dir(a) /\ ~io_ok THEN <<>> ELSE arg_files(a, ord)
            IN  /\ args' = [args EXCEPT ![p] = rest]
                /\ todo' = [todo EXCEPT ![p] = fs]
                /\ Goto(p, AfterStage(fs, rest))
                /\ UNCHANGED <<index, data, blob_id, run, last>>
    /\ UNCHANGED <<files, dirs, ops, edits>>

\* Lines 156-165: the for loop takes the next argument.
add_next_arg(p) ==
    /\ pc[p] = "loop"
    /\ todo[p] = <<>>
    /\ args[p] # <<>>
    /\ LET a == Head(args[p])
           rest == Tail(args[p])
       IN  \E ord \in Orders, io_ok \in BOOLEAN :
            IF is_dir(a) /\ ~io_ok THEN Finish(p, run[p], "io")
            ELSE LET fs == arg_files(a, ord)
                 IN  /\ args' = [args EXCEPT ![p] = rest]
                     /\ todo' = [todo EXCEPT ![p] = fs]
                     /\ Goto(p, AfterStage(fs, rest))
                     /\ UNCHANGED <<index, data, blob_id, run, last>>
    /\ UNCHANGED <<files, dirs, ops, edits>>

\* Lines 107-110: stage_file reads the file and hashes it.
stage_read(p) ==
    /\ pc[p] = "loop"
    /\ todo[p] # <<>>
    /\ \E io_ok \in BOOLEAN :
        IF io_ok /\ is_file(Head(todo[p]))
        THEN /\ data' = [data EXCEPT ![p] = files[Resolve(Head(todo[p]))]]
             /\ blob_id' = [blob_id EXCEPT
                              ![p] = sha1_hex(files[Resolve(Head(todo[p]))])]
             /\ Goto(p, "stage_check")
             /\ UNCHANGED <<args, index, todo, run, last>>
        ELSE Finish(p, run[p], "io")
    /\ UNCHANGED <<files, dirs, ops, edits>>

\* Line 114: write the blob only if no object has its name.
stage_check(p) ==
    /\ pc[p] = "stage_check"
    /\ IF blob_missing(blob_id[p])
       THEN /\ Goto(p, "blob_create")
            /\ UNCHANGED <<index, todo>>
       ELSE Staged(p)
    /\ UNCHANGED <<files, dirs, args, data, blob_id, run, last, ops, edits>>

\* Line 115: fs::write opens the object file, creating or truncating it ...
blob_create(p) ==
    /\ pc[p] = "blob_create"
    /\ \E io_ok \in BOOLEAN :
        IF io_ok /\ is_dir(objects_dir) /\ ~is_dir(object_path(blob_id[p]))
        THEN /\ files' = (Resolve(object_path(blob_id[p])) :> <<>>) @@ files
             /\ Goto(p, "blob_write")
             /\ UNCHANGED <<args, index, todo, data, blob_id, run, last>>
        ELSE /\ Finish(p, run[p], "io")
             /\ UNCHANGED files
    /\ UNCHANGED <<dirs, ops, edits>>

\* Mutant of blob_write: the object file is opened for appending.
blob_write_append(p) ==
    /\ pc[p] = "blob_write"
    /\ \E out \in {data[p]} \cup Torn(data[p]) :
        /\ files' = [files EXCEPT ![Resolve(object_path(blob_id[p]))] = @ \o out]
        /\ IF out = data[p]
           THEN /\ Staged(p)
                /\ UNCHANGED <<args, data, blob_id, run, last>>
           ELSE Finish(p, run[p], "io")
    /\ UNCHANGED <<dirs, ops, edits>>

\* ... and writes the bytes; a failure leaves a prefix behind.
blob_write(p) ==
    /\ pc[p] = "blob_write"
    /\ \E out \in {data[p]} \cup Torn(data[p]) :
        /\ files' = (Resolve(object_path(blob_id[p])) :> out) @@ files
        /\ IF out = data[p]
           THEN /\ Staged(p)
                /\ UNCHANGED <<args, data, blob_id, run, last>>
           ELSE Finish(p, run[p], "io")
    /\ UNCHANGED <<dirs, ops, edits>>

(***************************************************************************)
(* The process is killed.  A write under way leaves a prefix of its bytes. *)
(***************************************************************************)
Crash(p) ==
    /\ pc[p] # "idle"
    /\ \E t \in Torn(data[p]) \cup {<<>>} :
        files' = IF pc[p] = "blob_write"
                 THEN (Resolve(object_path(blob_id[p])) :> t) @@ files
                 ELSE IF pc[p] = "save_write"
                 THEN (IndexAbs :> t) @@ files
                 ELSE files
    /\ Finish(p, run[p], "killed")
    /\ UNCHANGED <<dirs, ops, edits>>

Next ==
    \/ \E f \in Editable, c \in FileData : EditFile(f, c)
    \/ \E p \in SeqProcs :
        \/ cmd_init(p)
        \/ init_mkdir_repo(p)
        \/ init_mkdir_objects(p)
        \/ \E paths \in ArgLists : cmd_add(p, paths)
        \/ add_mkdir(p)
        \/ add_load(p)
        \/ add_next_arg(p)
        \/ stage_read(p)
        \/ stage_check(p)
        \/ blob_create(p)
        \/ blob_write(p)
        \/ save_create(p)
        \/ save_write(p)
        \/ Crash(p)

Spec == Init /\ [][Next]_vars

(***************************************************************************)
(* Two invocations at once (two shells in the same directory).  Nothing    *)
(* in the program synchronizes them: their system calls interleave in any  *)
(* order.  This specification leaves faults out: no call fails for a       *)
(* reason outside the program and no process is killed.                    *)
(***************************************************************************)
NoFault(p) == pc'[p] = "idle" => last'.res \notin {"io", "killed"}

\* The command lines of the two shells: a.txt and src/b.txt hold the same
\* bytes.
ConcArgLists == {<<FileA>>, <<Src>>}

NextConc ==
    \E p \in Procs :
        \/ cmd_init(p) /\ NoFault(p)
        \/ init_mkdir_repo(p) /\ NoFault(p)
        \/ init_mkdir_objects(p) /\ NoFault(p)
        \/ (\E paths \in ConcArgLists : cmd_add(p, paths)) /\ NoFault(p)
        \/ add_mkdir(p) /\ NoFault(p)
        \/ add_load(p) /\ NoFault(p)
        \/ add_next_arg(p) /\ NoFault(p)
        \/ stage_read(p) /\ NoFault(p)
        \/ stage_check(p) /\ NoFault(p)
        \/ blob_create(p) /\ NoFault(p)
        \/ blob_write(p) /\ NoFault(p)
        \/ save_create(p) /\ NoFault(p)
        \/ save_write(p) /\ NoFault(p)

SpecConc == Init /\ [][NextConc]_vars

(***************************************************************************)
(* Vocabulary of the properties.                                           *)
(***************************************************************************)
AllIdle == \A p \in Procs : pc[p] = "idle"

\* Command c is invoked in this step by process p (a command that returns
\* at its first test leaves p idle; one that goes on has a run record).
Invoked(p, c) ==
    /\ pc[p] = "idle"
    /\ ops' = ops + 1
    /\ \A q \in Procs \ {p} : pc'[q] = pc[q]
    /\ IF pc'[p] = "idle" THEN last'.cmd = c ELSE run'[p].cmd = c

\* Command c of process p ends in this step with result r, having run.
Ends(p, c, r) ==
    /\ pc[p] # "idle"
    /\ pc'[p] = "idle"
    /\ run[p].cmd = c
    /\ last'.res = r

\* File q (absolute) is named by one of `paths` or lies below one of them.
Covers(paths, q) == \E i \in 1..Len(paths) : IsPrefix(Resolve(paths[i]), q)

\* The repository-relative name the spec gives a file q below the root.
KeyOf(q) == join_slash(SubSeq(q, Len(Cwd) + 1, Len(q)))

\* How often token t occurs in `bytes`.
Occurrences(bytes, t) == Cardinality({i \in 1..Len(bytes) : bytes[i] = t})

\* The object file of digest d.
ObjectFile(d) == ObjectsAbs \o <<d>>

(***************************************************************************)
(* C1  Deduplication.  When a successful `add` (or two successful `add`s   *)
(* in a row, the working tree untouched between them) has staged two       *)
(* different working files with the same bytes, the persisted index maps   *)
(* both paths to the digest of those bytes and the blob store holds        *)
(* exactly one object under that digest.                                   *)
(***************************************************************************)
StagedBy(r, q) ==
    \/ Covers(r.paths, q)
    \/ r.prev.cmd = "add" /\ r.prev.res = "ok" /\ Covers(r.prev.paths, q)

C1_Dedup ==
    [][\A p \in Procs : Ends(p, "add", "ok") =>
        \A f, g \in UserFiles :
            ( /\ f # g
              /\ StagedBy(run[p], Resolve(f))
              /\ StagedBy(run[p], Resolve(g))
              /\ files'[Resolve(f)] = files'[Resolve(g)] ) =>
            LET m == index_of(files')
                d == sha1_hex(files'[Resolve(f)])
            IN  /\ m.ok
                /\ KeyOf(Resolve(f)) \in DOMAIN m.map
                /\ KeyOf(Resolve(g)) \in DOMAIN m.map
                /\ m.map[KeyOf(Resolve(f))] = d
                /\ m.map[KeyOf(Resolve(g))] = d
                /\ Cardinality({q \in DOMAIN files' :
                                  IsObject(q) /\ q[Len(q)] = d}) = 1
      ]_vars

\* `add a.txt ghost src` has succeeded with a.txt and src/b.txt equal.
C1_Witness ==
    /\ AllIdle
    /\ last = [cmd |-> "add", paths |-> <<FileA, Ghost, Src>>, res |-> "ok"]
    /\ files[Resolve(FileA)] = files[Resolve(FileB)]
    /\ index_of(files).ok
    /\ {"a.txt", "src/b.txt"} \subseteq DOMAIN index_of(files).map
    /\ index_of(files).map["a.txt"] = index_of(files).map["src/b.txt"]

BeingWritten(q) ==
    \E p \in Procs : pc[p] = "blob_write" /\ q = Resolve(object_path(blob_id[p]))

C3_WriteOnce ==
    [][ /\ \A q \in DOMAIN files :
            (IsObject(q) /\ ~BeingWritten(q)) =>
                (q \in DOMAIN files' /\ files'[q] = files[q])
        /\ \A p \in Procs :
            (pc[p] = "stage_check" /\ ObjectFile(blob_id[p]) \in DOMAIN files) =>
                (files' = files /\ pc'[p] \notin {"blob_create", "blob_write"})
      ]_vars

\* A file has been staged whose object was in the store before the command
\* started, and the object is as it was.
C3_Witness ==
    \E p \in Procs :
        /\ pc[p] \in {"loop", "save"}
        /\ run[p].cmd = "add"
        /\ \E k \in DOMAIN index[p] : index[p][k] = blob_id[p]
        /\ ObjectFile(blob_id[p]) \in DOMAIN run[p].files0
        /\ files[ObjectFile(blob_id[p])] = run[p].files0[ObjectFile(blob_id[p])]

(***************************************************************************)
(* C4  Idempotent init.  An `init` invoked while the control area exists   *)
(* returns success at once and leaves every file and directory as it is.   *)
(***************************************************************************)
C4_InitIdempotent ==
    [][\A p \in Procs :
        /\ (Invoked(p, "init") /\ exists(repo_dir)) =>
                /\ pc'[p] = "idle"
                /\ last'.res = "ok"
                /\ files' = files
                /\ dirs' = dirs
        /\ (run[p].cmd = "init" /\ Resolve(repo_dir) \in run[p].dirs0) =>
                (files' = files /\ dirs' = dirs)
      ]_vars

\* `init` has just returned on a repository whose index holds entries.
C4_Witness ==
    /\ AllIdle
    /\ last.cmd = "init"
    /\ last.res = "ok"
    /\ index_of(files).ok
    /\ DOMAIN index_of(files).map # {}
    /\ objects_of(files) # {}

(***************************************************************************)
(* C5  Index write is all-or-nothing.  When save_index fails or the        *)
(* process is killed while it persists the index, the persisted index      *)
(* afterwards parses and is the complete mapping from before the command   *)
(* or the complete mapping the command was saving.                         *)
(***************************************************************************)
C5_IndexAllOrNothing ==
    [][\A p \in Procs :
        ( /\ pc[p] \in {"save", "save_write"}
          /\ pc'[p] = "idle"
          /\ last'.res # "ok" ) =>
            LET now == index_of(files')
                old == index_of(run[p].files0)
            IN  /\ now.ok
                /\ (now.map = old.map \/ now.map = index[p])
      ]_vars

(***************************************************************************)
(* C6  Interruption safety of the blob store.  After an `add` was killed,  *)
(* every object in the blob store holds the bytes whose digest is its      *)
(* name.                                                                   *)
(***************************************************************************)
C6_BlobsIntactAfterKill ==
    (AllIdle /\ last.cmd = "add" /\ last.res = "killed") =>
        \A q \in DOMAIN files : IsObject(q) => sha1_hex(files[q]) = q[Len(q)]

(***************************************************************************)
(* C7  Re-running add is idempotent.  When `add <dir>` succeeds right      *)
(* after the same `add <dir>` succeeded, no working file edited in         *)
(* between, the second run leaves the persisted index and the set of       *)
(* objects as the first run left them.                                     *)
(***************************************************************************)
C7_ReAddIdempotent ==
    [][\A p \in Procs :
        ( /\ Ends(p, "add", "ok")
          /\ Len(run[p].paths) = 1
          /\ Resolve(run[p].paths[1]) \in run[p].dirs0
          /\ run[p].prev = [cmd |-> "add", paths |-> run[p].paths, res |-> "ok"] ) =>
            /\ index_of(files').ok
            /\ index_of(files').map = index_of(run[p].files0).map
            /\ objects_of(files') = objects_of(run[p].files0)
      ]_vars

(***************************************************************************)
(* C8  Directory expansion.  After a successful `add`, every regular file  *)
(* that lay under one of its directory arguments when the command started  *)
(* has an entry in the persisted index under its repository-relative path, *)
(* and no key of the index is the path of a directory.                     *)
(***************************************************************************)
C8_DirExpansion ==
    [][\A p \in Procs : Ends(p, "add", "ok") =>
        LET r == run[p]
            m == index_of(files')
        IN  /\ m.ok
            /\ \A i \in 1..Len(r.paths) :
                Resolve(r.paths[i]) \in r.dirs0 =>
                    \A q \in DOMAIN r.files0 :
                        IsPrefix(Resolve(r.paths[i]), q) => KeyOf(q) \in DOMAIN m.map
            /\ \A d \in dirs' : IsPrefix(Cwd, d) => KeyOf(d) \notin DOMAIN m.map
      ]_vars

\* `add src` has succeeded and the file two levels down is in the index.
C8_Witness ==
    /\ AllIdle
    /\ last = [cmd |-> "add", paths |-> <<Src>>, res |-> "ok"]
    /\ index_of(files).ok
    /\ "src/sub/c.txt" \in DOMAIN index_of(files).map
    /\ "src/b.txt" \in DOMAIN index_of(files).map

(***************************************************************************)
(* C9  add requires the control area.  An `add` invoked while the control  *)
(* area does not exist returns a precondition error at once and creates    *)
(* or changes no file and no directory.                                    *)
(***************************************************************************)
C9_AddNeedsRepo ==
    [][\A p \in Procs :
        (Invoked(p, "add") /\ ~exists(repo_dir)) =>
            /\ pc'[p] = "idle"
            /\ last'.res = "precondition"
            /\ files' = files
            /\ dirs' = dirs
      ]_vars

\* `add` has been refused and there is still no control area.
C9_Witness ==
    /\ AllIdle
    /\ last.cmd = "add"
    /\ last.res = "precondition"
    /\ ~exists(repo_dir)
    /\ ~exists(objects_dir)
    /\ ~exists(index_path)

(***************************************************************************)
(* C10  Skippable path.  Reaching an argument that is neither a file nor a  *)
(* directory, the command (unless it is killed there) goes on to the next  *)
(* argument or to save_index and stages nothing; and when an `add` with    *)
(* such an argument succeeds, every working file its other arguments name  *)
(* or contain is in the persisted index with the digest of its bytes, and  *)
(* the persisted index is the one the command built.                       *)
(***************************************************************************)
C10_SkippablePath ==
    [][\A p \in Procs :
        /\ ( /\ pc[p] = "loop"
             /\ todo[p] = <<>>
             /\ args[p] # <<>>
             /\ pc'[p] # pc[p] \/ args'[p] # args[p]
             /\ ~(pc'[p] = "idle" /\ last'.res = "killed")
             /\ ~exists(Head(args[p])) ) =>
                /\ pc'[p] \in {"loop", "save"}
                /\ args'[p] = Tail(args[p])
                /\ todo'[p] = <<>>
                /\ index'[p] = index[p]
                /\ files' = files
        /\ ( /\ Ends(p, "add", "ok")
             /\ \E i \in 1..Len(run[p].paths) :
                    /\ Resolve(run[p].paths[i]) \notin run[p].dirs0
                    /\ Resolve(run[p].paths[i]) \notin DOMAIN run[p].files0 ) =>
                LET m == index_of(files')
                IN  /\ m.ok
                    /\ m.map = index[p]
                    /\ \A f \in UserFiles :
                        Covers(run[p].paths, Resolve(f)) =>
                            /\ KeyOf(Resolve(f)) \in DOMAIN m.map
                            /\ m.map[KeyOf(Resolve(f))] = sha1_hex(files'[Resolve(f)])
      ]_vars

\* `add a.txt ghost src` has succeeded: the arguments before and after the
\* missing one are staged, the missing one is not.
C10_Witness ==
    /\ AllIdle
    /\ last = [cmd |-> "add", paths |-> <<FileA, Ghost, Src>>, res |-> "ok"]
    /\ ~exists(Ghost)
    /\ index_of(files).ok
    /\ {"a.txt", "src/b.txt", "src/sub/c.txt"} \subseteq DOMAIN index_of(files).map
    /\ "ghost" \notin DOMAIN index_of(files).map

(***************************************************************************)
(* C11  Single persist per invocation.  While an `add` runs, the index     *)
(* file stays as the command found it until the one fs::write of           *)
(* save_index; that write starts only when no argument and no file of an   *)
(* argument is left to process, nothing follows it but the end of the      *)
(* command, and a successful `add` ends by completing it.                  *)
(***************************************************************************)
IndexFile(fs) == IF IndexAbs \in DOMAIN fs THEN <<fs[IndexAbs]>> ELSE <<>>

C11_SinglePersist ==
    [][\A p \in Procs : run[p].cmd = "add" =>
        /\ pc[p] # "save_write" => IndexFile(files) = IndexFile(run[p].files0)
        /\ IndexFile(files') # IndexFile(files) =>
                /\ pc[p] \in {"save", "save_write"}
                /\ args[p] = <<>>
                /\ todo[p] = <<>>
        /\ pc[p] = "save_write" => pc'[p] \in {"save_write", "idle"}
        /\ pc[p] = "save" => pc'[p] \in {"save", "save_write", "idle"}
        /\ Ends(p, "add", "ok") =>
                /\ pc[p] = "save_write"
                /\ args[p] = <<>>
                /\ todo[p] = <<>>
                /\ \E ord \in Orders : files'[IndexAbs] = to_vec_pretty(index[p], ord)
      ]_vars

\* The one write of `add a.txt ghost src` is under way: every argument has
\* been processed, three files are staged in memory, index.json is open.
C11_Witness ==
    \E p \in Procs :
        /\ pc[p] = "save_write"
        /\ run[p].cmd = "add"
        /\ Len(run[p].paths) = 3
        /\ args[p] = <<>>
        /\ todo[p] = <<>>
        /\ Cardinality(DOMAIN index[p]) = 3
        /\ files[IndexAbs] = <<>>
        /\ IndexFile(run[p].files0) # <<>>
        /\ IndexFile(run[p].files0) # <<files[IndexAbs]>>

(***************************************************************************)
(* C12  Concurrent writers of the same content.  When two invocations run  *)
(* at once and neither fails nor is killed, every object in the blob store *)
(* holds the full bytes its name is the digest of, or is open in an        *)
(* invocation that is about to write them; a file an invocation has staged *)
(* has its object in the store; and when both invocations have returned    *)
(* every object is complete (one object per digest, by its name).          *)
(***************************************************************************)
Complete(fs, q) == sha1_hex(fs[q]) = q[Len(q)]

C12_ConcurrentSameContent ==
    /\ \A q \in DOMAIN files :
            IsObject(q) => (Complete(files, q) \/ BeingWritten(q))
    /\ \A p \in Procs : \A k \in DOMAIN index[p] :
            (pc[p] \in {"loop", "stage_check", "blob_create", "blob_write", "save"}
                /\ index[p][k] = blob_id[p]) =>
                    ObjectFile(blob_id[p]) \in DOMAIN files
    /\ AllIdle => \A q \in DOMAIN files : IsObject(q) => Complete(files, q)

\* Two invocations have each found the object of the same bytes missing and
\* have each opened it for writing.
C12_Witness ==
    /\ pc[1] = "blob_write"
    /\ pc[2] = "blob_write"
    /\ blob_id[1] = blob_id[2]
    /\ data[1] = data[2]
    /\ run[1].paths # run[2].paths
    /\ files[ObjectFile(blob_id[1])] = <<>>

(***************************************************************************)
(* C13  Round trip.  When save_index has written mapping m (the empty one  *)
(* of `init`, or the one an `add` built, its entries serialized in any     *)
(* order), load_index on the disk it leaves returns m.                     *)
(***************************************************************************)
C13_RoundTrip ==
    [][\A p \in Procs :
        (pc[p] = "save_write" /\ pc'[p] = "idle" /\ last'.res = "ok") =>
            /\ IndexAbs \in DOMAIN files'
            /\ index_of(files').ok
            /\ index_of(files').map = index[p]
      ]_vars

\* An `add` has loaded the index that the `add` before it saved: a mapping
\* of several entries has gone through save_index and load_index.
C13_Witness ==
    \E p \in Procs :
        /\ pc[p] = "loop"
        /\ run[p].cmd = "add"
        /\ args[p] = run[p].paths
        /\ run[p].prev.cmd = "add"
        /\ run[p].prev.res = "ok"
        /\ Cardinality(DOMAIN index[p]) >= 3
        /\ files = run[p].files0

Below(d, fs, ds) == {q \in ds \cup DOMAIN fs : IsPrefix(d, q) /\ q # d}

C15_FreshInit ==
    [][\A p \in Procs :
        (Ends(p, "init", "ok") /\ Resolve(repo_dir) \notin run[p].dirs0) =>
            /\ Resolve(repo_dir) \in dirs'
            /\ ObjectsAbs \in dirs'
            /\ Below(ObjectsAbs, files', dirs') = {}
            /\ IndexAbs \in DOMAIN files'
            /\ index_of(files').ok
            /\ index_of(files').map = EmptyIndex
            /\ Below(Resolve(repo_dir), files', dirs') = {ObjectsAbs, IndexAbs}
            /\ \A q \in DOMAIN run[p].files0 :
                    q \in DOMAIN files' /\ files'[q] = run[p].files0[q]
      ]_vars

\* The first command was `init` and it has succeeded.
C15_Witness ==
    /\ AllIdle
    /\ ops = 1
    /\ last = [cmd |-> "init", paths |-> <<>>, res |-> "ok"]
    /\ is_dir(objects_dir)
    /\ objects_of(files) = {}
    /\ is_file(index_path)
    /\ files[IndexAbs] = to_vec_pretty(EmptyIndex, "fwd")

(***************************************************************************)
(* C16  Index load outcomes.  When `add` comes to load the index and there *)
(* is none, it goes on with the empty mapping (unless it is killed there), *)
(* and if it then succeeds the persisted index holds the files of its own  *)
(* arguments and nothing else.  When the index file is there and does not  *)
(* parse, `add` ends there, with a parse error (or an I/O error when the   *)
(* file could not be read, or killed): it has staged nothing, and every    *)
(* file, the index file among them, is as it was when the command started. *)
(***************************************************************************)
KeysOf(paths, fs) == {to_repo_relative(q) : q \in {r \in DOMAIN fs : Covers(paths, r)}}

C16_IndexLoadOutcomes ==
    [][\A p \in Procs :
        /\ (pc[p] = "load" /\ pc'[p] # "load" /\ ~exists(index_path)) =>
                /\ files' = files
                /\ IF pc'[p] = "idle" THEN last'.res = "killed"
                   ELSE index'[p] = EmptyIndex
        /\ (Ends(p, "add", "ok") /\ IndexAbs \notin DOMAIN run[p].files0) =>
                /\ index_of(files').ok
                /\ DOMAIN index_of(files').map \subseteq KeysOf(run[p].paths, files')
        /\ ( /\ pc[p] = "load"
             /\ pc'[p] # "load"
             /\ exists(index_path)
             /\ ~index_of(files).ok ) =>
                /\ pc'[p] = "idle"
                /\ last'.res \in {"parse", "io", "killed"}
                /\ index[p] = EmptyIndex
                /\ args[p] = run[p].paths
                /\ files = run[p].files0
                /\ files' = files
        /\ Ends(p, "add", "parse") =>
                /\ pc[p] = "load"
                /\ IndexAbs \in DOMAIN run[p].files0
                /\ ~index_of(run[p].files0).ok
                /\ files' = run[p].files0
      ]_vars

\* An `add` has just ended with a parse error: the index file is there, it
\* does not parse, and the blob store is empty.
C16_Witness ==
    /\ AllIdle
    /\ last.cmd = "add"
    /\ last.res = "parse"
    /\ is_file(index_path)
    /\ ~index_of(files).ok
    /\ is_dir(objects_dir)
    /\ objects_of(files) = {}

(***************************************************************************)
(* C17  Referential integrity.  In every state, whatever commands have     *)
(* succeeded, failed or been killed, every digest that is a value of the   *)
(* persisted index (when the index file parses) names an object file in    *)
(* the blob store, and so does every digest in the index a running command *)
(* holds in memory and will persist.                                       *)
(***************************************************************************)
Values(m) == {m[k] : k \in DOMAIN m}

C17_ReferentialIntegrity ==
    /\ index_of(files).ok => Values(index_of(files).map) \subseteq objects_of(files)
    /\ \A p \in Procs : Values(index[p]) \subseteq objects_of(files)

\* A command has been killed on a repository whose persisted index refers
\* to two objects.
C17_Witness ==
    /\ AllIdle
    /\ last.res = "killed"
    /\ index_of(files).ok
    /\ Cardinality(Values(index_of(files).map)) >= 2
    /\ Cardinality(objects_of(files)) > Cardinality(Values(index_of(files).map))

(***************************************************************************)
(* C18  A fatal error aborts the whole batch.  When an `add` ends with an  *)
(* I/O error in its loop (a directory or a file could not be read, a blob  *)
(* could not be written), the index file is as it was when the command     *)
(* started, and the objects of the files the command had staged by then    *)
(* are in the blob store.  No such error is passed over: an `add` that     *)
(* succeeds has every file its arguments named or contained at its start   *)
(* in the persisted index.                                                 *)
(***************************************************************************)
C18_FatalErrorAborts ==
    [][\A p \in Procs :
        /\ ( /\ Ends(p, "add", "io")
             /\ pc[p] \in {"loop", "blob_create", "blob_write"} ) =>
                /\ IndexFile(files') = IndexFile(run[p].files0)
                /\ Values(index[p]) \subseteq objects_of(files')
                /\ \A q \in DOMAIN files :
                        (IsObject(q) /\ ~BeingWritten(q)) =>
                            (q \in DOMAIN files' /\ files'[q] = files[q])
        /\ Ends(p, "add", "ok") =>
                /\ index_of(files').ok
                /\ KeysOf(run[p].paths, run[p].files0) \subseteq DOMAIN index_of(files').map
      ]_vars

\* `add a.txt ghost src` has failed after a.txt was staged and before
\* src/sub/c.txt was: the blob of a.txt is stored, the index is still empty.
C18_Witness ==
    /\ AllIdle
    /\ last = [cmd |-> "add", paths |-> <<FileA, Ghost, Src>>, res |-> "io"]
    /\ index_of(files).ok
    /\ index_of(files).map = EmptyIndex
    /\ objects_of(files) = {sha1_hex(files[Resolve(FileA)])}
    /\ Complete(files, ObjectFile(sha1_hex(files[Resolve(FileA)])))

(***************************************************************************)
(* C19  The staging index only grows.  When an `init` or an `add` returns  *)
(* success, every key the persisted index had when the command started is  *)
(* a key of the persisted index it leaves.                                 *)
(***************************************************************************)
C19_IndexOnlyGrows ==
    [][\A p \in Procs :
        /\ (pc[p] # "idle" /\ pc'[p] = "idle" /\ last'.res = "ok") =>
                (index_of(run[p].files0).ok =>
                    /\ index_of(files').ok
                    /\ DOMAIN index_of(run[p].files0).map
                            \subseteq DOMAIN index_of(files').map)
        /\ (Invoked(p, "init") /\ pc'[p] = "idle" /\ last'.res = "ok") =>
                IndexFile(files') = IndexFile(files)
      ]_vars

\* An `add` is about to persist an index that has the keys of the persisted
\* one, staged by `add src`, and one more.
C19_Witness ==
    \E p \in Procs :
        /\ pc[p] = "save_write"
        /\ run[p].cmd = "add"
        /\ run[p].prev = [cmd |-> "add", paths |-> <<Src>>, res |-> "ok"]
        /\ index_of(run[p].files0).ok
        /\ DOMAIN index_of(run[p].files0).map = {"src/b.txt", "src/sub/c.txt"}
        /\ DOMAIN index[p] = {"a.txt", "src/b.txt", "src/sub/c.txt"}

(***************************************************************************)
(* C20  Blob storage area precondition.  From the moment an `add` loads    *)
(* the index, and so whenever it tests for, opens or writes an object, the *)
(* blob storage area exists, also when the command found the control area  *)
(* without it.                                                             *)
(***************************************************************************)
C20_ObjectsDirBeforeWrite ==
    \A p \in Procs :
        ( /\ run[p].cmd = "add"
          /\ pc[p] \in {"load", "loop", "stage_check", "blob_create",
                        "blob_write", "save", "save_write"} ) =>
            /\ is_dir(repo_dir)
            /\ is_dir(objects_dir)

\* An `add` that found `.minigit` without `objects` is about to open an
\* object for writing.
C20_Witness ==
    \E p \in Procs :
        /\ pc[p] = "blob_create"
        /\ run[p].cmd = "add"
        /\ Resolve(repo_dir) \in run[p].dirs0
        /\ ObjectsAbs \notin run[p].dirs0
        /\ is_dir(objects_dir)
        /\ objects_of(files) = {}

====
